---- MODULE Spec2Model ----
(***************************************************************************)
(* Model of the signal bus, the alert dispatcher and the scan loop of      *)
(* money-signal-ai-polygon-v2 (core/bus.py, core/alerting.py,              *)
(* core/dispatcher.py, core/context.py, run.py).                           *)
(*                                                                         *)
(* Time is the reading of time.time(), in abstract seconds 0..MaxTime;     *)
(* successive readings never decrease.  An optional value is <<>> (None)   *)
(* or <<v>>.                                                               *)
(***************************************************************************)
EXTENDS Integers, Sequences, FiniteSets, TLC

VARIABLES
    cls,                          \* class of the Dispatcher instance: "alerting" or "dispatcher"
    tg_config,                    \* TRUE iff TelegramConfig has both bot_token and chat_id
    min_alert_interval_seconds,   \* Dispatcher.min_alert_interval_seconds
    last_sent,                    \* Dispatcher._last_sent: key -> last_sent_ts
    clock,                        \* latest reading of time.time()
    ncalls,                       \* dispatch calls made on this instance
    ninst,                        \* Dispatcher instances constructed so far
    transport_log,                \* calls of send_telegram_message made by this instance
    ndelivered,                   \* messages of this instance that Telegram accepted
    last_call,                    \* <<>> or <<record of the most recent dispatch call>>
    heap,                         \* Python list objects of the SignalBus: id -> contents
    signals_ref,                  \* SignalBus._signals: id of the current buffer list
    npub,                         \* Signal objects handed to publish so far
    published,                    \* Signal objects whose publish call has completed, in order
    returned,                     \* the drain calls that returned: [ref, snap]
    ppc,                          \* publisher threads: position inside publish
    pref,                         \* publisher threads: the list loaded from self._signals
    psig,                         \* publisher threads: the signal being published
    dpc,                          \* draining thread: position inside drain
    dlocal,                       \* draining thread: the local variable signals
    rpc,                          \* main(): position inside the scan loop
    cycle,                        \* main(): number of the current scan cycle
    reply,                        \* what PolygonClient.get answered to the SPY query
    ctx_args,                     \* keyword arguments compute_market_context passed to MarketContext
    drains,                       \* bus.drain() calls made in the current cycle
    bots_done,                    \* producers completed or recorded as failed in the current cycle
    errors_logged,                \* log.exception("Error in main loop") calls so far
    status_bots,                  \* StatusReporter._bots: bot_name -> BotRunRecord
    runs,                         \* the calls of _run_bot_safely that have ended, in order
    agg_in,                       \* <<>> or <<arguments of the latest aggregate_signals call>>
    agg_pass,                     \* the passes of the loop of that call, one per group
    agg_out,                      \* <<>> or <<what that call did: grouped, raised, final>>
    agg_left,                     \* <<>> or <<the arguments as that call left them>>
    agg_first,                    \* <<>> or <<the first call, once a later one was made>>
    cmb_prev,                     \* <<>> or <<the _combine_convictions call before the latest>>
    cmb_last,                     \* <<>> or <<the latest _combine_convictions call>>
    pair_sent,                    \* _last_sent of a core/dispatcher.py Dispatcher run alongside
    pair_call,                    \* <<>> or <<what its latest dispatch call did>>
    cyc_base,                     \* signals published before the scan cycle began
    cyc_final,                    \* final_signals still to be dispatched in the scan cycle
    cyc_log                       \* the signals dispatch was called with in the scan cycle

dispVars == <<cls, tg_config, min_alert_interval_seconds, last_sent, clock,
              ncalls, ninst, transport_log, ndelivered, last_call>>
busVars == <<heap, signals_ref, npub, published, returned, ppc, pref, psig, dpc, dlocal>>
runVars == <<rpc, cycle, reply, ctx_args, drains, bots_done, errors_logged>>
pairVars == <<pair_sent, pair_call>>
cycVars == <<cyc_base, cyc_final, cyc_log>>
unitVars == <<status_bots, runs, agg_in, agg_pass, agg_out, agg_left, agg_first,
              cmb_prev, cmb_last, pairVars, cycVars>>
vars == <<dispVars, busVars, runVars, unitVars>>

None == <<>>
Some(v) == <<v>>
Value(o) == o[1]

(***************************************************************************)
(* Bounds of the model.                                                    *)
(***************************************************************************)
MaxTime == 2
MaxInterval == 2
MaxCalls == 3
MaxInstances == 2
MaxPublish == 3
MaxDrains == 3
NumPublishers == 2
MaxCycles == 3

Max(a, b) == IF a >= b THEN a ELSE b

(***************************************************************************)
(* core/models.py                                                          *)
(***************************************************************************)
Signal(kind, symbol, direction, conviction, reasons, extra) ==
    [kind |-> kind, symbol |-> symbol, direction |-> direction,
     conviction |-> conviction, reasons |-> reasons, extra |-> extra]

MarketContext(trend, vol_regime, risk_off) ==
    [trend |-> trend, vol_regime |-> vol_regime, risk_off |-> risk_off]

\* getattr(obj, name, default)
GetAttr(obj, name, default) == IF name \in DOMAIN obj THEN obj[name] ELSE default

(***************************************************************************)
(* Inputs of dispatch: four signals that differ from the first in exactly  *)
(* one component of (symbol, direction, kind); convictions in hundredths.  *)
(***************************************************************************)
DispatchSignals ==
    { Signal("breakout", "AAPL", "bull", 50, <<"r1">>, <<>>),
      Signal("breakout", "MSFT", "bull", 50, <<"r1">>, <<>>),
      Signal("breakout", "AAPL", "bear", 50, <<"r1">>, <<>>),
      Signal("momentum", "AAPL", "bull", 50, <<"r1">>, <<>>) }

DispatchContext == MarketContext("chop", "normal", FALSE)

\* outcome of requests.post + raise_for_status
NetOutcomes == {"ok", "http_error", "timeout"}

IntervalInputs == { Some(v) : v \in (-1) .. MaxInterval }
Classes == {"alerting", "dispatcher"}

\* the (symbol, direction, category) identity of a signal
ThrottleKey(sig) == <<sig.symbol, sig.direction, sig.kind>>

(***************************************************************************)
(* core/alerting.py                                                        *)
(***************************************************************************)
\* variant: only the HTTP error of raise_for_status is caught
SendTelegramMessageHttpOnly(cfg, net) ==
    IF ~cfg
    THEN [posted |-> FALSE, delivered |-> FALSE, warned |-> FALSE, raised |-> FALSE]
    ELSE IF net = "ok"
    THEN [posted |-> TRUE, delivered |-> TRUE, warned |-> FALSE, raised |-> FALSE]
    ELSE IF net = "http_error"
    THEN [posted |-> TRUE, delivered |-> FALSE, warned |-> TRUE, raised |-> FALSE]
    ELSE [posted |-> TRUE, delivered |-> FALSE, warned |-> FALSE, raised |-> TRUE]

\* variant: no try statement around the request
SendTelegramMessageUncaught(cfg, net) ==
    IF ~cfg
    THEN [posted |-> FALSE, delivered |-> FALSE, warned |-> FALSE, raised |-> FALSE]
    ELSE IF net = "ok"
    THEN [posted |-> TRUE, delivered |-> TRUE, warned |-> FALSE, raised |-> FALSE]
    ELSE [posted |-> TRUE, delivered |-> FALSE, warned |-> FALSE, raised |-> TRUE]

\* send_telegram_message: what the call did and whether it raised.
\* requests.post raises on a timeout, raise_for_status on an HTTP error;
\* both are caught by "except Exception".
SendTelegramMessage(cfg, net) ==
    IF ~cfg
    THEN [posted |-> FALSE, delivered |-> FALSE, warned |-> FALSE, raised |-> FALSE]
    ELSE IF net = "ok"
    THEN [posted |-> TRUE, delivered |-> TRUE, warned |-> FALSE, raised |-> FALSE]
    ELSE [posted |-> TRUE, delivered |-> FALSE, warned |-> TRUE, raised |-> FALSE]

\* Dispatcher.__init__: max(0, int(min_alert_interval_seconds or 0))
AlertingInterval(v) == IF v = None THEN 0 ELSE Max(0, Value(v))

\* variant: the key leaves out the kind
KeyForSignalNoKind(sig) ==
    <<GetAttr(sig, "symbol", "?"), GetAttr(sig, "direction", "neutral"), "GENERIC">>

\* Dispatcher._key_for_signal
KeyForSignal(sig) ==
    <<GetAttr(sig, "symbol", "?"), GetAttr(sig, "direction", "neutral"),
      GetAttr(sig, "kind", "GENERIC")>>

\* dict.get(key): the value, or None
DictGet(d, key) == IF key \in DOMAIN d THEN Some(d[key]) ELSE None

\* d[key] = value
DictPut(d, key, value) ==
    [k \in DOMAIN d \cup {key} |-> IF k = key THEN value ELSE d[k]]

\* variant: the window is one second short
InsideWindowShort(last_ts, now, interval) ==
    last_ts # None /\ (now - Value(last_ts)) < interval - 1

\* variant: the boundary counts as inside the window
InsideWindowInclusive(last_ts, now, interval) ==
    last_ts # None /\ (now - Value(last_ts)) <= interval

\* the throttle test of both classes: inside the cooldown window
InsideWindow(last_ts, now, interval) ==
    last_ts # None /\ (now - Value(last_ts)) < interval

\* variant: a suppressed call restarts the window
ShouldSendExtends(table, interval, sig, now) ==
    IF interval <= 0
    THEN [send |-> TRUE, table |-> table]
    ELSE LET key == KeyForSignal(sig)
             last_ts == DictGet(table, key)
         IN  IF InsideWindow(last_ts, now, interval)
             THEN [send |-> FALSE, table |-> DictPut(table, key, now)]
             ELSE [send |-> TRUE, table |-> DictPut(table, key, now)]

\* variant: a send forgets the records of the other keys
ShouldSendPrunes(table, interval, sig, now) ==
    IF interval <= 0
    THEN [send |-> TRUE, table |-> table]
    ELSE LET key == KeyForSignal(sig)
             last_ts == DictGet(table, key)
         IN  IF InsideWindow(last_ts, now, interval)
             THEN [send |-> FALSE, table |-> table]
             ELSE [send |-> TRUE, table |-> [k \in {key} |-> now]]

\* variant: with no cooldown the send is recorded all the same
ShouldSendRecordsAlways(table, interval, sig, now) ==
    LET key == KeyForSignal(sig)
        last_ts == DictGet(table, key)
    IN  IF interval > 0 /\ InsideWindow(last_ts, now, interval)
        THEN [send |-> FALSE, table |-> table]
        ELSE [send |-> TRUE, table |-> DictPut(table, key, now)]

\* Dispatcher._should_send: the decision and the table it leaves
ShouldSend(table, interval, sig, now) ==
    IF interval <= 0
    THEN [send |-> TRUE, table |-> table]
    ELSE LET key == KeyForSignal(sig)
             last_ts == DictGet(table, key)
         IN  IF InsideWindow(last_ts, now, interval)
             THEN [send |-> FALSE, table |-> table]
             ELSE [send |-> TRUE, table |-> DictPut(table, key, now)]

\* Dispatcher._format_signal (core/alerting.py): the fields the text shows
AlertingFormatSignal(sig, ctx) ==
    [header |-> <<GetAttr(sig, "direction", "neutral"), sig.kind, sig.symbol>>,
     conviction |-> GetAttr(sig, "conviction", 0),
     reasons |-> GetAttr(sig, "reasons", <<>>),
     market |-> <<ctx.trend, ctx.vol_regime, ctx.risk_off>>]

(***************************************************************************)
(* core/dispatcher.py                                                      *)
(***************************************************************************)
\* key = (sig.kind, sig.symbol, sig.direction)
DispatcherKey(sig) == <<sig.kind, sig.symbol, sig.direction>>

\* Dispatcher._format_signal (core/dispatcher.py)
DispatcherFormatSignal(sig, ctx) ==
    [header |-> <<sig.direction, sig.kind, sig.symbol>>,
     conviction |-> sig.conviction,
     reasons |-> sig.reasons,
     market |-> <<ctx.trend, ctx.vol_regime, ctx.risk_off>>]

\* variant: the timestamp is recorded only for a delivered send
RecordAttemptOnDelivery(table, key, now, r) ==
    IF r.delivered THEN DictPut(table, key, now) ELSE table

\* self._last_sent[key] = now, the statement after the send: skipped only
\* when the send raised
RecordAttempt(table, key, now, r) ==
    IF r.raised THEN table ELSE DictPut(table, key, now)

\* the key under which the instance's class files a signal
KeyOf(c, sig) == IF c = "alerting" THEN KeyForSignal(sig) ELSE DispatcherKey(sig)

(***************************************************************************)
(* The Dispatcher as a state machine.                                      *)
(***************************************************************************)
EmptyDict == [k \in {} |-> 0]

\* self._last_sent = {} / field(default_factory=dict): a new dict per instance
FreshTable(old) == EmptyDict

\* the configured interval as the class stores it
StoredInterval(c, v) == IF c = "alerting" THEN AlertingInterval(v) ELSE Value(v)

\* the values a caller may pass as min_alert_interval_seconds
ConfigInputs(c) == IF c = "alerting" THEN IntervalInputs \cup {None} ELSE IntervalInputs

CallRecord(sig, now, send, text, r) ==
    [sig |-> sig, now |-> now, send |-> send, invoked |-> send, text |-> text,
     posted |-> r.posted, delivered |-> r.delivered, warned |-> r.warned,
     raised |-> r.raised]

NotSent == [posted |-> FALSE, delivered |-> FALSE, warned |-> FALSE, raised |-> FALSE]

LogEntry(sig, now) == [sig |-> sig, t |-> now]

Delivered(n, r) == IF r.delivered THEN n + 1 ELSE n

Publishers == 1 .. NumPublishers

\* SignalBus.__init__: self._signals = [], a new list object; no call of
\* publish or drain is in progress
BusIdle ==
    /\ heap = <<<<>>>>
    /\ signals_ref = 1
    /\ npub = 0
    /\ published = <<>>
    /\ returned = <<>>
    /\ ppc = [p \in Publishers |-> "idle"]
    /\ pref = [p \in Publishers |-> 0]
    /\ psig = [p \in Publishers |-> None]
    /\ dpc = "idle"
    /\ dlocal = 0

\* main() before the first pass of "while True"
RunIdle ==
    /\ rpc = "loop"
    /\ cycle = 0
    /\ reply = None
    /\ ctx_args = None
    /\ drains = 0
    /\ bots_done = 0
    /\ errors_logged = 0

\* StatusReporter(...): _bots = {}; no call of _run_bot_safely has been made
UnitIdle ==
    /\ status_bots = EmptyDict
    /\ runs = <<>>
    /\ agg_in = None
    /\ agg_pass = <<>>
    /\ agg_out = None
    /\ agg_left = None
    /\ agg_first = None
    /\ cmb_prev = None
    /\ cmb_last = None
    /\ pair_sent = EmptyDict
    /\ pair_call = None
    /\ cyc_base = 0
    /\ cyc_final = <<>>
    /\ cyc_log = <<>>

\* get_settings returns only with TELEGRAM_BOT_TOKEN and TELEGRAM_CHAT_ID
\* set, so every TelegramConfig of the process has both
TelegramConfigured == TRUE

\* Dispatcher(tg_config, min_alert_interval_seconds) of either class
InitDispatch ==
    /\ cls \in Classes
    /\ tg_config = TelegramConfigured
    /\ \E v \in ConfigInputs(cls) : min_alert_interval_seconds = StoredInterval(cls, v)
    /\ last_sent = EmptyDict
    /\ clock = 0
    /\ ncalls = 0
    /\ ninst = 1
    /\ transport_log = <<>>
    /\ ndelivered = 0
    /\ last_call = <<>>
    /\ BusIdle
    /\ RunIdle
    /\ UnitIdle

\* the process restarts: the same constructor call, with the same settings,
\* builds a new Dispatcher instance
Construct ==
    /\ ninst < MaxInstances
    /\ cls' = cls
    /\ tg_config' = TelegramConfigured
    /\ min_alert_interval_seconds' = min_alert_interval_seconds
    /\ last_sent' = FreshTable(last_sent)
    /\ ncalls' = 0
    /\ ninst' = ninst + 1
    /\ transport_log' = <<>>
    /\ ndelivered' = 0
    /\ last_call' = <<>>
    /\ UNCHANGED <<clock, busVars, runVars, unitVars>>

\* Dispatcher.dispatch of core/alerting.py
AlertingDispatch(sig, now, net) ==
    /\ cls = "alerting"
    /\ ncalls < MaxCalls
    /\ now >= clock
    /\ clock' = now
    /\ ncalls' = ncalls + 1
    /\ LET d == ShouldSend(last_sent, min_alert_interval_seconds, sig, now)
       IN  IF ~d.send
           THEN /\ last_sent' = d.table
                /\ transport_log' = transport_log
                /\ ndelivered' = ndelivered
                /\ last_call' = <<CallRecord(sig, now, FALSE, None, NotSent)>>
           ELSE LET text == AlertingFormatSignal(sig, DispatchContext)
                    r == SendTelegramMessage(tg_config, net)
                IN  /\ last_sent' = d.table
                    /\ transport_log' = Append(transport_log, LogEntry(sig, now))
                    /\ ndelivered' = Delivered(ndelivered, r)
                    /\ last_call' = <<CallRecord(sig, now, TRUE, Some(text), r)>>
    /\ UNCHANGED <<cls, tg_config, min_alert_interval_seconds, ninst, busVars, runVars, unitVars>>

\* Dispatcher.dispatch of core/dispatcher.py
DispatcherDispatch(sig, now, net) ==
    /\ cls = "dispatcher"
    /\ ncalls < MaxCalls
    /\ now >= clock
    /\ clock' = now
    /\ ncalls' = ncalls + 1
    /\ LET key == DispatcherKey(sig)
           last_ts == DictGet(last_sent, key)
       IN  IF InsideWindow(last_ts, now, min_alert_interval_seconds)
           THEN /\ last_sent' = last_sent
                /\ transport_log' = transport_log
                /\ ndelivered' = ndelivered
                /\ last_call' = <<CallRecord(sig, now, FALSE, None, NotSent)>>
           ELSE LET text == DispatcherFormatSignal(sig, DispatchContext)
                    r == SendTelegramMessage(tg_config, net)
                IN  /\ transport_log' = Append(transport_log, LogEntry(sig, now))
                    /\ ndelivered' = Delivered(ndelivered, r)
                    /\ last_sent' = RecordAttempt(last_sent, key, now, r)
                    /\ last_call' = <<CallRecord(sig, now, TRUE, Some(text), r)>>
    /\ UNCHANGED <<cls, tg_config, min_alert_interval_seconds, ninst, busVars, runVars, unitVars>>

\* Dispatcher.dispatch of core/alerting.py as a function of the table:
\* _should_send records the time, then the text is formatted and sent
AlertingOutcome(table, interval, cfg, sig, now, net) ==
    LET d == ShouldSend(table, interval, sig, now)
    IN  IF ~d.send
        THEN [send |-> FALSE, table |-> d.table, r |-> NotSent]
        ELSE [send |-> TRUE, table |-> d.table, r |-> SendTelegramMessage(cfg, net)]

\* Dispatcher.dispatch of core/dispatcher.py as a function of the table:
\* the text is formatted and sent, then the time is recorded
DispatcherOutcome(table, interval, cfg, sig, now, net) ==
    LET key == DispatcherKey(sig)
        last_ts == DictGet(table, key)
    IN  IF InsideWindow(last_ts, now, interval)
        THEN [send |-> FALSE, table |-> table, r |-> NotSent]
        ELSE LET r == SendTelegramMessage(cfg, net)
             IN  [send |-> TRUE, table |-> RecordAttempt(table, key, now, r), r |-> r]

\* one Dispatcher of each class, built with the same positive interval
InitBoth ==
    /\ cls = "alerting"
    /\ tg_config = TelegramConfigured
    /\ \E v \in 1 .. MaxInterval :
          /\ min_alert_interval_seconds = StoredInterval("alerting", Some(v))
          /\ min_alert_interval_seconds = StoredInterval("dispatcher", Some(v))
    /\ last_sent = EmptyDict
    /\ clock = 0
    /\ ncalls = 0
    /\ ninst = 1
    /\ transport_log = <<>>
    /\ ndelivered = 0
    /\ last_call = <<>>
    /\ BusIdle
    /\ RunIdle
    /\ UnitIdle

\* dispatch(sig, ctx) on both instances at the clock reading now; the
\* network answers each of them on its own
DispatchBoth(sig, now, net, pair_net) ==
    /\ ncalls < MaxCalls
    /\ now >= clock
    /\ clock' = now
    /\ ncalls' = ncalls + 1
    /\ LET a == AlertingOutcome(last_sent, min_alert_interval_seconds, tg_config,
                                sig, now, net)
           d == DispatcherOutcome(pair_sent, min_alert_interval_seconds, tg_config,
                                  sig, now, pair_net)
       IN  /\ last_sent' = a.table
           /\ last_call' = <<CallRecord(sig, now, a.send, None, a.r)>>
           /\ pair_sent' = d.table
           /\ pair_call' = <<CallRecord(sig, now, d.send, None, d.r)>>
           /\ ndelivered' = Delivered(ndelivered, a.r)
    /\ UNCHANGED <<cls, tg_config, min_alert_interval_seconds, ninst, transport_log>>
    /\ UNCHANGED <<status_bots, runs, agg_in, agg_pass, agg_out, agg_left, agg_first,
                   cmb_prev, cmb_last, cycVars>>
    /\ UNCHANGED <<busVars, runVars>>

NextBoth ==
    \E sig \in DispatchSignals : \E now \in 0 .. MaxTime :
        \E net \in NetOutcomes : \E pair_net \in NetOutcomes :
            DispatchBoth(sig, now, net, pair_net)

SpecBoth == InitBoth /\ [][NextBoth]_vars

NextDispatch ==
    \/ Construct
    \/ \E sig \in DispatchSignals : \E now \in 0 .. MaxTime : \E net \in NetOutcomes :
          AlertingDispatch(sig, now, net)
    \/ \E sig \in DispatchSignals : \E now \in 0 .. MaxTime : \E net \in NetOutcomes :
          DispatcherDispatch(sig, now, net)

SpecDispatch == InitDispatch /\ [][NextDispatch]_vars

(***************************************************************************)
(* Claims about the Dispatcher.                                            *)
(***************************************************************************)
Called == last_call # <<>>
Call == last_call[1]
Interval == min_alert_interval_seconds

\* a dispatch call is made in this step
DispatchStep == ncalls' = ncalls + 1
NewCall == last_call'[1]

\* the record the instance holds for a signal, as an optional timestamp
RecordOf(table, sig) == DictGet(table, KeyOf(cls, sig))

\* the pairs of transport calls made for one throttle key, earlier first
SameKeyPairs ==
    { p \in (DOMAIN transport_log) \X (DOMAIN transport_log) :
        /\ p[1] < p[2]
        /\ ThrottleKey(transport_log[p[1]].sig) = ThrottleKey(transport_log[p[2]].sig) }

\* C1: with a positive cooldown interval, any two transport sends made by
\* one Dispatcher for the same (symbol, direction, category) key have
\* attempt times at least the interval apart.
C1_SendsCooldownApart ==
    Interval > 0 =>
        \A p \in SameKeyPairs :
            transport_log[p[2]].t - transport_log[p[1]].t >= Interval

\* a key was sent, and sent again once the interval had passed
C1_Witness ==
    /\ Interval > 0
    /\ SameKeyPairs # {}
    /\ ncalls > Len(transport_log)

\* C2 as stated: whenever dispatch invokes the transport for a key, the
\* key's last_sent_at is the time of the attempt, delivered or not.
C2_Original ==
    (Called /\ Call.invoked) =>
        RecordOf(last_sent, Call.sig) = Some(Call.now)

C2_Action ==
    Interval > 0 =>
        /\ (DispatchStep /\ NewCall.invoked) =>
              /\ RecordOf(last_sent', NewCall.sig) = Some(NewCall.now)
              /\ Len(transport_log') = Len(transport_log) + 1
        /\ (/\ DispatchStep
            /\ Called /\ Call.invoked /\ ~Call.delivered
            /\ ThrottleKey(NewCall.sig) = ThrottleKey(Call.sig)
            /\ NewCall.now - Call.now < Interval) => ~NewCall.invoked

\* C2 amended: with a positive cooldown interval, whenever dispatch invokes
\* the transport for a key the key's last_sent_at is the time of the
\* attempt whether or not the send delivered; the call makes one transport
\* call (no retry), and a dispatch for the key that follows a failed send
\* inside the window is suppressed.
C2_AttemptAdvancesCooldown == [][C2_Action]_vars

\* nothing was ever delivered, and the dispatch that followed the failed
\* send of the key inside the window was suppressed
C2_Witness ==
    /\ Interval > 0
    /\ Called /\ ~Call.invoked
    /\ Len(transport_log) = 1
    /\ ndelivered = 0
    /\ ThrottleKey(transport_log[1].sig) = ThrottleKey(Call.sig)
    /\ Call.now - transport_log[1].t < Interval

\* the key of the signal is Cooling at time now
Cooling(table, sig, now) ==
    /\ RecordOf(table, sig) # None
    /\ now - Value(RecordOf(table, sig)) < Interval

C3_Action ==
    (DispatchStep /\ Cooling(last_sent, NewCall.sig, NewCall.now)) =>
        /\ ~NewCall.invoked
        /\ transport_log' = transport_log
        /\ last_sent' = last_sent

\* C3: a dispatch call for a key that is Cooling does not invoke the
\* transport and leaves the whole cooldown table, that key's last_sent_at
\* included, unchanged.
C3_CoolingNoEffect == [][C3_Action]_vars

\* a call was suppressed and the key still holds the earlier timestamp
C3_Witness ==
    /\ Called /\ ~Call.invoked
    /\ RecordOf(last_sent, Call.sig) # None
    /\ Value(RecordOf(last_sent, Call.sig)) < Call.now
    /\ ncalls = 3

C4_Action ==
    /\ (DispatchStep /\ ~Cooling(last_sent, NewCall.sig, NewCall.now)) =>
          /\ NewCall.invoked
          /\ Len(transport_log') = Len(transport_log) + 1
    /\ ninst' # ninst => last_sent' = EmptyDict
    /\ (DispatchStep /\ ncalls = 0) => NewCall.invoked

\* C4: a dispatch call invokes the transport whenever the key has no record
\* or the time since last_sent_at is at least the interval (boundary
\* included); a newly constructed Dispatcher has an empty table, so its
\* first dispatch always invokes the transport.
C4_EligibleSends == [][C4_Action]_vars

\* a key was sent again exactly one interval after its previous send, by a
\* Dispatcher constructed after an earlier one
C4_Witness ==
    /\ Interval > 0
    /\ ninst = 2
    /\ \E p \in SameKeyPairs :
          transport_log[p[2]].t - transport_log[p[1]].t = Interval

\* C5: dispatch returns normally whatever the transport call did, and a
\* failed transport call is logged.
C5_TransportErrorContained ==
    Called =>
        /\ ~Call.raised
        /\ (Call.posted /\ ~Call.delivered) => Call.warned

\* the transport call failed inside send_telegram_message and was logged
C5_Witness ==
    /\ Called /\ Call.invoked
    /\ Call.posted /\ ~Call.delivered /\ Call.warned
    /\ ~Call.raised

C6_Action ==
    DispatchStep =>
        \A other \in DispatchSignals :
            ThrottleKey(other) # ThrottleKey(NewCall.sig) =>
                RecordOf(last_sent', other) = RecordOf(last_sent, other)

\* C6: a dispatch for one signal leaves the record, and so the eligibility,
\* of every signal that differs from it in symbol, direction or category
\* unchanged.
C6_KeyIsolation == [][C6_Action]_vars

\* three keys, each differing from the first in one component, were sent
\* inside one cooldown window
C6_Witness ==
    /\ Interval > 0
    /\ Len(transport_log) = 3
    /\ SameKeyPairs = {}
    /\ transport_log[3].t - transport_log[1].t < Interval
    /\ Cardinality(DOMAIN last_sent) = 3

C7_Action ==
    ninst' = ninst =>
        /\ last_sent' # last_sent => (DispatchStep /\ NewCall.invoked)
        /\ DOMAIN last_sent \subseteq DOMAIN last_sent'
        /\ \A k \in DOMAIN last_sent : last_sent'[k] >= last_sent[k]

\* C7: the cooldown table of a Dispatcher changes only in a dispatch call
\* that invokes the transport; no entry is ever removed and no
\* last_sent_at ever decreases.
C7_TableGrowsOnly == [][C7_Action]_vars

\* the table holds two keys, one of them sent twice
C7_Witness ==
    /\ Cardinality(DOMAIN last_sent) = 2
    /\ SameKeyPairs # {}

C13_Action ==
    (DispatchStep /\ Called /\ Call.invoked /\ ~Call.delivered) =>
        /\ ~Call.raised
        /\ ~NewCall.raised
        /\ ThrottleKey(NewCall.sig) # ThrottleKey(Call.sig) =>
              (NewCall.invoked <=> ~Cooling(last_sent, NewCall.sig, NewCall.now))

\* C13: when the dispatch of one signal of a batch fails in the transport,
\* the call returns normally to the loop over the batch, and the dispatch
\* of another signal that follows is attempted as if the send had
\* succeeded: it invokes the transport unless its own key is Cooling.
C13_DispatchFailureIsolated == [][C13_Action]_vars

\* three signals were dispatched one after the other at the same time:
\* every send failed and every one was attempted
C13_Witness ==
    /\ Interval > 0
    /\ ncalls = 3
    /\ Len(transport_log) = 3
    /\ ndelivered = 0
    /\ SameKeyPairs = {}
    /\ transport_log[3].t = transport_log[1].t

(***************************************************************************)
(* core/bus.py: SignalBus.  The buffer is a Python list object; drain      *)
(* hands that object out and binds self._signals to a new one.             *)
(***************************************************************************)
\* what the producers hand to publish; the bus accepts any of them
BusSignals ==
    { Signal("breakout", "AAPL", "bull", 50, <<"r1">>, <<>>),
      Signal("momentum", "AAPL", "bull", 150, <<>>, <<>>),
      Signal("breakout", "", "bull", 50, <<"r1">>, <<>>) }

\* the n-th Signal object created
Object(n, sig) == [id |-> n, sig |-> sig]

\* list.append
ListAppend(h, ref, obj) == [h EXCEPT ![ref] = Append(@, obj)]

\* variant: drain hands out the buffer and keeps using it
DrainNoReset ==
    /\ Len(returned) < MaxDrains
    /\ returned' = Append(returned, [ref |-> signals_ref, snap |-> heap[signals_ref]])
    /\ UNCHANGED <<heap, signals_ref, npub, published, ppc, pref, psig, dpc, dlocal>>
    /\ UNCHANGED <<dispVars, runVars, unitVars>>

\* SignalBus.publish, called with no other call in progress
Publish(sig) ==
    /\ npub < MaxPublish
    /\ npub' = npub + 1
    /\ heap' = ListAppend(heap, signals_ref, Object(npub + 1, sig))
    /\ published' = Append(published, Object(npub + 1, sig))
    /\ UNCHANGED <<signals_ref, returned, ppc, pref, psig, dpc, dlocal>>
    /\ UNCHANGED <<dispVars, runVars, unitVars>>

\* SignalBus.drain, called with no other call in progress
Drain ==
    /\ Len(returned) < MaxDrains
    /\ heap' = Append(heap, <<>>)
    /\ signals_ref' = Len(heap) + 1
    /\ returned' = Append(returned, [ref |-> signals_ref, snap |-> heap[signals_ref]])
    /\ UNCHANGED <<npub, published, ppc, pref, psig, dpc, dlocal>>
    /\ UNCHANGED <<dispVars, runVars, unitVars>>

\* the Dispatcher main() constructs: core/alerting.py, interval from Settings
MinAlertIntervalDefault == 600

DispatcherOfMain ==
    /\ cls = "alerting"
    /\ tg_config = TelegramConfigured
    /\ min_alert_interval_seconds = AlertingInterval(Some(MinAlertIntervalDefault))
    /\ last_sent = EmptyDict
    /\ clock = 0
    /\ ncalls = 0
    /\ ninst = 1
    /\ transport_log = <<>>
    /\ ndelivered = 0
    /\ last_call = <<>>

InitBus == DispatcherOfMain /\ BusIdle /\ RunIdle /\ UnitIdle

NextBus ==
    \/ \E sig \in BusSignals : Publish(sig)
    \/ Drain

SpecBus == InitBus /\ [][NextBus]_vars

(***************************************************************************)
(* SignalBus with publishers and a draining thread running concurrently:   *)
(* a thread switch may fall between any two bytecodes, so between the      *)
(* load of self._signals and the append in publish, and between the        *)
(* statements of drain.                                                    *)
(***************************************************************************)
\* publish, first half: the Signal exists and self._signals is loaded
PublishLoad(p, sig) ==
    /\ ppc[p] = "idle"
    /\ npub < MaxPublish
    /\ npub' = npub + 1
    /\ psig' = [psig EXCEPT ![p] = Some(Object(npub + 1, sig))]
    /\ pref' = [pref EXCEPT ![p] = signals_ref]
    /\ ppc' = [ppc EXCEPT ![p] = "loaded"]
    /\ UNCHANGED <<heap, signals_ref, published, returned, dpc, dlocal>>
    /\ UNCHANGED <<dispVars, runVars, unitVars>>

\* publish, second half: .append(signal) on the list that was loaded
PublishAppend(p) ==
    /\ ppc[p] = "loaded"
    /\ heap' = ListAppend(heap, pref[p], Value(psig[p]))
    /\ published' = Append(published, Value(psig[p]))
    /\ ppc' = [ppc EXCEPT ![p] = "idle"]
    /\ psig' = [psig EXCEPT ![p] = None]
    /\ pref' = [pref EXCEPT ![p] = 0]
    /\ UNCHANGED <<signals_ref, npub, returned, dpc, dlocal>>
    /\ UNCHANGED <<dispVars, runVars, unitVars>>

\* drain: signals = self._signals
DrainRead ==
    /\ dpc = "idle"
    /\ Len(returned) < MaxDrains
    /\ dlocal' = signals_ref
    /\ dpc' = "read"
    /\ UNCHANGED <<heap, signals_ref, npub, published, returned, ppc, pref, psig>>
    /\ UNCHANGED <<dispVars, runVars, unitVars>>

\* drain: self._signals = []
DrainReset ==
    /\ dpc = "read"
    /\ heap' = Append(heap, <<>>)
    /\ signals_ref' = Len(heap) + 1
    /\ dpc' = "reset"
    /\ UNCHANGED <<npub, published, returned, ppc, pref, psig, dlocal>>
    /\ UNCHANGED <<dispVars, runVars, unitVars>>

\* drain: return signals
DrainReturn ==
    /\ dpc = "reset"
    /\ returned' = Append(returned, [ref |-> dlocal, snap |-> heap[dlocal]])
    /\ dpc' = "idle"
    /\ dlocal' = 0
    /\ UNCHANGED <<heap, signals_ref, npub, published, ppc, pref, psig>>
    /\ UNCHANGED <<dispVars, runVars, unitVars>>

NextBusThreads ==
    \/ \E p \in Publishers : \E sig \in BusSignals : PublishLoad(p, sig)
    \/ \E p \in Publishers : PublishAppend(p)
    \/ DrainRead
    \/ DrainReset
    \/ DrainReturn

SpecBusThreads == InitBus /\ [][NextBusThreads]_vars

(***************************************************************************)
(* Claims about the SignalBus.                                             *)
(***************************************************************************)
RECURSIVE Batches(_)
\* the batches the first n drains returned, joined in the order of the drains
Batches(n) == IF n = 0 THEN <<>> ELSE Batches(n - 1) \o returned[n].snap

\* the number of places of a sequence that hold the object
Occurrences(seq, obj) == Cardinality({ i \in DOMAIN seq : seq[i] = obj })

\* the objects a drain in progress will return
BeingDrained == IF dpc = "reset" THEN heap[dlocal] ELSE <<>>

\* C8 as stated: under any interleaving of publish with drain, every
\* published signal is exactly once in a returned batch, in the batch of
\* the drain in progress or in the buffer, and a list returned by drain is
\* never modified after drain has returned.
C8_DrainAtomic ==
    /\ \A d \in DOMAIN returned : heap[returned[d].ref] = returned[d].snap
    /\ \A i \in DOMAIN published :
          Occurrences(Batches(Len(returned)) \o BeingDrained \o heap[signals_ref],
                      published[i]) = 1

C9_State ==
    /\ Batches(Len(returned)) \o heap[signals_ref] = published
    /\ \A d \in DOMAIN returned : heap[returned[d].ref] = returned[d].snap
    /\ \A i, j \in DOMAIN published : published[i] = published[j] => i = j

C9_Action ==
    /\ C9_State'
    /\ Len(returned') = Len(returned) + 1 =>
          /\ returned'[Len(returned')].snap = heap[signals_ref]
          /\ heap'[signals_ref'] = <<>>

\* C9: with publish and drain called one after the other, the batches
\* returned so far followed by the buffer are exactly the published
\* signals in publish order, each once and none filtered; a drain returns
\* the whole buffer and leaves the buffer empty.
C9_PublishedDrainedOnce == [][C9_Action]_vars

\* three signals, one without a symbol and one with conviction 1.5, were
\* drained in a batch of two, an empty batch and a batch of one
C9_Witness ==
    /\ Len(returned) = 3
    /\ Len(returned[1].snap) = 2
    /\ returned[2].snap = <<>>
    /\ Len(returned[3].snap) = 1
    /\ \E i \in DOMAIN published : published[i].sig.symbol = ""
    /\ \E i \in DOMAIN published : published[i].sig.conviction > 100

(***************************************************************************)
(* core/context.py and the scan loop of run.py.                            *)
(*                                                                         *)
(* Prices are in cents and bar ranges in hundredths.  A reply of           *)
(* PolygonClient.get is [status, count, closes, avg_range]: whether the    *)
(* request succeeded, resultsCount, the closes of results[:5] (newest      *)
(* first) and the mean of high - low over them.                            *)
(***************************************************************************)
ClosesInputs == { <<>>, <<50000>>, <<50100, 50000>>, <<50000, 50000>>, <<49900, 50000>> }
RangeInputs == {20, 50, 120}

ReplyInputs ==
    { [status |-> "error", count |-> 0, closes |-> <<>>, avg_range |-> 0],
      [status |-> "ok", count |-> 0, closes |-> <<>>, avg_range |-> 0] }
    \cup { [status |-> "ok", count |-> 1, closes |-> c, avg_range |-> r] :
             c \in ClosesInputs, r \in RangeInputs }

\* the fields of the dataclass MarketContext of core/models.py, none with a default
MarketContextFields == {"as_of", "trend", "vol_regime", "risk_off"}

\* MarketContext(**kwargs): the generated __init__ raises TypeError when a
\* field without default is not passed
MarketContextNew(kwargs) ==
    IF MarketContextFields \subseteq DOMAIN kwargs
    THEN [raised |-> FALSE, kwargs |-> Some(kwargs)]
    ELSE [raised |-> TRUE, kwargs |-> Some(kwargs)]

\* _get_spy_minute_agg: the reply, or None after an error or with no results
GetSpyMinuteAgg(rep) ==
    IF rep.status = "error" THEN None
    ELSE IF rep.count = 0 THEN None
    ELSE Some(rep)

\* compute_market_context: the outcome of the MarketContext(...) call it ends with
ComputeMarketContext(rep) ==
    LET data == GetSpyMinuteAgg(rep)
        chop == MarketContext("chop", "normal", FALSE)
    IN  IF data = None THEN MarketContextNew(chop)
        ELSE LET closes == Value(data).closes
                 avg_range == Value(data).avg_range
             IN  IF Len(closes) = 0 THEN MarketContextNew(chop)
                 ELSE IF Len(closes) < 2 THEN MarketContextNew(chop)
                 ELSE LET trend == IF closes[1] * 1000 > closes[Len(closes)] * 1001 THEN "bull"
                                   ELSE IF closes[1] * 1000 < closes[Len(closes)] * 999 THEN "bear"
                                   ELSE "chop"
                          vol == IF avg_range < 30 THEN "low"
                                 ELSE IF avg_range > 100 THEN "high"
                                 ELSE "normal"
                          risk_off == trend = "bear" /\ vol = "high"
                      IN  MarketContextNew(MarketContext(trend, vol, risk_off))

\* main, "while True: try: ctx = compute_market_context(client)": a scan
\* cycle begins; an exception leaves the try block for its handler,
\* otherwise the producers are next
BeginCycle(rep) ==
    /\ rpc = "loop"
    /\ cycle < MaxCycles
    /\ cycle' = cycle + 1
    /\ drains' = 0
    /\ bots_done' = 0
    /\ reply' = Some(rep)
    /\ LET r == ComputeMarketContext(rep)
       IN  /\ ctx_args' = r.kwargs
           /\ rpc' = IF r.raised THEN "except" ELSE "bots"
    /\ UNCHANGED errors_logged
    /\ UNCHANGED <<dispVars, busVars, unitVars>>

\* variant: the handler lets the exception go on, and main ends
LogMainLoopErrorReraise ==
    /\ rpc = "except"
    /\ errors_logged' = errors_logged + 1
    /\ rpc' = "exit"
    /\ UNCHANGED <<cycle, reply, ctx_args, drains, bots_done>>
    /\ UNCHANGED <<dispVars, busVars, unitVars>>

\* main, "except Exception as exc: log.exception(...)"
LogMainLoopError ==
    /\ rpc = "except"
    /\ errors_logged' = errors_logged + 1
    /\ rpc' = "sleep"
    /\ UNCHANGED <<cycle, reply, ctx_args, drains, bots_done>>
    /\ UNCHANGED <<dispVars, busVars, unitVars>>

\* main, "time.sleep(settings.scan_interval_seconds)": the cycle is over
Sleep ==
    /\ rpc = "sleep"
    /\ rpc' = "loop"
    /\ UNCHANGED <<cycle, reply, ctx_args, drains, bots_done, errors_logged>>
    /\ UNCHANGED <<dispVars, busVars, unitVars>>

InitRun == DispatcherOfMain /\ BusIdle /\ RunIdle /\ UnitIdle

\* every call of compute_market_context raises, so the statements of main
\* between the call and the handler (run.py lines 75 to 252) never execute
NextRun ==
    \/ \E rep \in ReplyInputs : BeginCycle(rep)
    \/ LogMainLoopError
    \/ Sleep

SpecRun == InitRun /\ [][NextRun]_vars

\* main is one sequential loop: the statement it stands at is executed, and
\* time.sleep returns after scan_interval_seconds
SpecRunFair == SpecRun /\ WF_vars(NextRun)

(***************************************************************************)
(* Claims about the scan loop.                                             *)
(***************************************************************************)
\* the producers main hands to _run_bot_safely in a cycle
Bots ==
    { "cheap_lottos", "unusual_sweeps", "volume_monster", "orb_breakout",
      "dark_pool_radar", "trend_breakout+swing", "trend_breakdown",
      "squeeze_up", "squeeze_down", "earnings_momentum" }

\* C10: in every scan cycle the bus is drained exactly once, after every
\* producer has completed or been recorded as failed.
C10_DrainOncePerCycle ==
    (cycle > 0 /\ rpc = "loop") => (drains = 1 /\ bots_done = Cardinality(Bots))

MaxRuns == 2

\* two of the producers of main
ProducerInputs == {"unusual_sweeps", "trend_breakdown"}

\* what a run of fn publishes before it ends, and how it ends
FnInputs ==
    { [sigs |-> q, ending |-> e] :
        q \in { <<>>,
                <<Signal("UNUSUAL", "AAPL", "bull", 60, <<"unusual_flow">>, <<>>)>>,
                <<Signal("UNUSUAL", "AAPL", "bull", 60, <<"unusual_flow">>, <<>>),
                  Signal("TREND_BREAKDOWN", "MSFT", "bear", 70, <<"breakdown">>, <<>>)>> },
        e \in {"return", "raise"} }

\* BotRunRecord(): the fields that count runs
BotRunRecord == [last_ok |-> TRUE, runs |-> 0, errors |-> 0]

\* self._bots.get(bot_name) or BotRunRecord()
BotRecordOf(bots, bot_name) ==
    IF bot_name \in DOMAIN bots THEN bots[bot_name] ELSE BotRunRecord

\* StatusReporter.record_success
RecordSuccess(bots, bot_name) ==
    LET rec == BotRecordOf(bots, bot_name)
    IN  DictPut(bots, bot_name, [rec EXCEPT !.last_ok = TRUE, !.runs = @ + 1])

\* StatusReporter.record_error
RecordError(bots, bot_name) ==
    LET rec == BotRecordOf(bots, bot_name)
    IN  DictPut(bots, bot_name,
                [rec EXCEPT !.last_ok = FALSE, !.runs = @ + 1, !.errors = @ + 1])

\* variant: no except clause, the producer's exception leaves _run_bot_safely
TryFnNoExcept(bots, bot_name, ending) ==
    IF ending = "return"
    THEN [bots |-> RecordSuccess(bots, bot_name), raised |-> FALSE]
    ELSE [bots |-> bots, raised |-> TRUE]

\* the try statement of _run_bot_safely: record_success after fn returned,
\* record_error and log.exception after fn raised an Exception
TryFn(bots, bot_name, ending) ==
    IF ending = "return"
    THEN [bots |-> RecordSuccess(bots, bot_name), raised |-> FALSE]
    ELSE [bots |-> RecordError(bots, bot_name), raised |-> FALSE]

\* the Signal objects fn creates, numbered after those that exist
FnObjects(n, sigs) == [i \in DOMAIN sigs |-> Object(n + i, sigs[i])]

\* _run_bot_safely(bot_name, fn, status_reporter, client, bus, ctx, ...)
RunBotSafely(bot_name, fn) ==
    /\ Len(runs) < MaxRuns
    /\ npub + Len(fn.sigs) <= MaxPublish
    /\ LET objs == FnObjects(npub, fn.sigs)
           r == TryFn(status_bots, bot_name, fn.ending)
       IN  /\ npub' = npub + Len(objs)
           /\ heap' = [heap EXCEPT ![signals_ref] = @ \o objs]
           /\ published' = published \o objs
           /\ status_bots' = r.bots
           /\ runs' = Append(runs, [bot |-> bot_name, objs |-> objs,
                                    failed |-> fn.ending = "raise",
                                    raised |-> r.raised,
                                    before |-> Len(returned)])
    /\ UNCHANGED <<signals_ref, returned, ppc, pref, psig, dpc, dlocal>>
    /\ UNCHANGED <<agg_in, agg_pass, agg_out, agg_left, agg_first, cmb_prev, cmb_last,
                   pairVars, cycVars>>
    /\ UNCHANGED <<dispVars, runVars>>

InitProducers == DispatcherOfMain /\ BusIdle /\ RunIdle /\ UnitIdle

NextProducers ==
    \/ \E bot_name \in ProducerInputs : \E fn \in FnInputs : RunBotSafely(bot_name, fn)
    \/ Drain

SpecProducers == InitProducers /\ [][NextProducers]_vars

(***************************************************************************)
(* Claims about _run_bot_safely.                                           *)
(***************************************************************************)
\* the runs of a producer that failed
FailedRuns(bot_name) == { i \in DOMAIN runs : runs[i].bot = bot_name /\ runs[i].failed }

\* the batch of the first drain after the run, or the buffer before that drain
BatchAfter(run) ==
    IF Len(returned) > run.before
    THEN returned[run.before + 1].snap
    ELSE heap[signals_ref]

\* C11: a producer that fails does not abort its caller: _run_bot_safely
\* returns normally and records the failure, so the producers after it,
\* drain and aggregation are reached; every signal the producer published
\* before failing is in the buffer until the next drain and in the batch
\* that drain returns.
C11_ProducerFailureIsolated ==
    /\ \A i \in DOMAIN runs :
          /\ ~runs[i].raised
          /\ \A j \in DOMAIN runs[i].objs :
                Occurrences(BatchAfter(runs[i]), runs[i].objs[j]) = 1
    /\ \A b \in ProducerInputs :
          BotRecordOf(status_bots, b).errors = Cardinality(FailedRuns(b))

\* a producer published a signal and failed, another producer ran after
\* it, and the drain that followed returned the signal of the failed one
C11_Witness ==
    /\ Len(runs) = 2
    /\ runs[1].failed /\ Len(runs[1].objs) = 1
    /\ ~runs[2].failed /\ Len(runs[2].objs) = 1
    /\ Len(returned) = 1
    /\ returned[1].snap = runs[1].objs \o runs[2].objs

(***************************************************************************)
(* Python float: IEEE 754 binary64, results rounded to nearest, ties to    *)
(* even.  A float x is [neg, mag]: its sign and the natural number         *)
(* |x| * 2^FracBits, written in limbs of LimbBits bits, least significant  *)
(* first.  The grid holds every float of magnitude below 2^LimbBits that   *)
(* is zero or at least 2^(MantBits - FracBits).                            *)
(***************************************************************************)
LimbBits == 10
FracLimbs == 10
MantBits == 53

Base == 2 ^ LimbBits
FracBits == FracLimbs * LimbBits
NumLimbs == FracLimbs + 1

RECURSIVE Carry(_, _, _, _)
\* columns of any integers into limbs below Base, from column i on, with
\* the carry c; the carry out of the top column is returned beside them
Carry(cols, i, c, acc) ==
    IF i > Len(cols) THEN [limbs |-> acc, carry |-> c]
    ELSE LET t == cols[i] + c
             limb == ((t % Base) + Base) % Base
         IN  Carry(cols, i + 1, (t - limb) \div Base, Append(acc, limb))

Limbs(cols) == Carry(cols, 1, 0, <<>>).limbs

RECURSIVE SumUpTo(_, _)
SumUpTo(f, n) == IF n = 0 THEN 0 ELSE f[n] + SumUpTo(f, n - 1)

\* a * b for naturals a, b
NatMul(a, b) ==
    Limbs([k \in 1 .. (Len(a) + Len(b)) |->
             SumUpTo([i \in 1 .. Len(a) |->
                        IF (k + 1 - i) \in 1 .. Len(b) THEN a[i] * b[k + 1 - i] ELSE 0],
                     Len(a))])

\* a - b for naturals a >= b of one length
NatSub(a, b) == Limbs([i \in 1 .. Len(a) |-> a[i] - b[i]])

\* a < b for naturals of one length
NatLess(a, b) == Carry([i \in 1 .. Len(a) |-> a[i] - b[i]], 1, 0, <<>>).carry < 0

NatZero(n) == [i \in 1 .. n |-> 0]

\* the number of bits of a natural
BitLength(a) ==
    LET nz == { i \in 1 .. Len(a) : a[i] # 0 }
    IN  IF nz = {} THEN 0
        ELSE LET top == CHOOSE i \in nz : \A j \in nz : j <= i
                 bits == CHOOSE b \in 1 .. LimbBits : a[top] < 2 ^ b /\ a[top] >= 2 ^ (b - 1)
             IN  (top - 1) * LimbBits + bits

\* bit i of a natural, bit 0 the lowest
Bit(a, i) == (a[(i \div LimbBits) + 1] \div (2 ^ (i % LimbBits))) % 2

\* a natural rounded to MantBits significant bits, ties to even
RoundSig(a) ==
    LET len == BitLength(a)
        s == len - MantBits
    IN  IF s <= 0 THEN a
        ELSE LET q == s \div LimbBits
                 r == 2 ^ (s % LimbBits)
                 g == (s - 1) \div LimbBits
                 h == 2 ^ ((s - 1) % LimbBits)
                 sticky == \/ \E j \in 1 .. g : a[j] # 0
                           \/ a[g + 1] % h # 0
                 up == Bit(a, s - 1) = 1 /\ (sticky \/ Bit(a, s) = 1)
                 cols == [j \in 1 .. Len(a) |->
                            IF j <= q THEN 0
                            ELSE IF j = q + 1
                            THEN (a[j] \div r) * r + (IF up THEN r ELSE 0)
                            ELSE a[j]]
             IN  Limbs(cols)

RECURSIVE DivSmall(_, _, _, _)
\* the natural a divided by the small number d, from limb i down, with the
\* remainder rem carried in: the quotient's limbs, and the last remainder
DivSmall(a, d, i, rem) ==
    IF i = 0 THEN [limbs |-> <<>>, rem |-> rem]
    ELSE LET cur == rem * Base + a[i]
             rest == DivSmall(a, d, i - 1, cur % d)
         IN  [limbs |-> Append(rest.limbs, cur \div d), rem |-> rest.rem]

\* 1.0 and 0.0
One == [neg |-> FALSE, mag |-> [i \in 1 .. NumLimbs |-> IF i = NumLimbs THEN 1 ELSE 0]]
Zero == [neg |-> FALSE, mag |-> NatZero(NumLimbs)]

\* the float a decimal literal of k hundredths denotes: the float nearest
\* to k / 100, for |k| below 100 * Base
FloatOf(k) ==
    LET n == IF k < 0 THEN 0 - k ELSE k
        num == [i \in 1 .. (NumLimbs + 1) |->
                  IF i = NumLimbs THEN n % Base
                  ELSE IF i = NumLimbs + 1 THEN n \div Base ELSE 0]
        d == DivSmall(num, 100, NumLimbs + 1, 0)
        quot == [i \in 1 .. NumLimbs |->
                   IF i = 1 /\ d.rem # 0 /\ d.limbs[1] % 2 = 0
                   THEN d.limbs[1] + 1 ELSE d.limbs[i]]
    IN  [neg |-> k < 0, mag |-> RoundSig(quot)]

\* x < y
FloatLess(x, y) ==
    IF x.neg /\ ~y.neg THEN x.mag # NatZero(NumLimbs) \/ y.mag # NatZero(NumLimbs)
    ELSE IF ~x.neg /\ y.neg THEN FALSE
    ELSE IF x.neg THEN NatLess(y.mag, x.mag)
    ELSE NatLess(x.mag, y.mag)

\* min(x, y) and max(x, y) of Python: the first argument unless the second
\* is smaller (larger)
PyMin(x, y) == IF FloatLess(y, x) THEN y ELSE x
PyMax(x, y) == IF FloatLess(x, y) THEN y ELSE x

\* x - y for 0 <= y <= x
FloatSub(x, y) == [neg |-> FALSE, mag |-> RoundSig(NatSub(x.mag, y.mag))]

\* x * y for x, y >= 0
FloatMul(x, y) ==
    LET p == RoundSig(NatMul(x.mag, y.mag))
    IN  [neg |-> FALSE, mag |-> [i \in 1 .. NumLimbs |-> p[i + FracLimbs]]]

(***************************************************************************)
(* core/aggregator.py                                                      *)
(***************************************************************************)
\* p = max(0.0, min(1.0, p))
Clamp(p) == PyMax(Zero, PyMin(One, p))

RECURSIVE ProbNot(_, _)
\* prob_not after the first n convictions
ProbNot(convictions, n) ==
    IF n = 0 THEN One
    ELSE FloatMul(ProbNot(convictions, n - 1), FloatSub(One, Clamp(convictions[n])))

\* _combine_convictions
CombineConvictions(convictions) ==
    FloatSub(One, ProbNot(convictions, Len(convictions)))

\* the parameter default min_conviction = 0.4 and the bars of the two gates
MinConvictionDefault == FloatOf(40)
RiskOffBullBar == FloatOf(70)
BullTrendBearBar == FloatOf(60)

\* obj.name exists
HasAttr(obj, name) == name \in DOMAIN obj

\* the fields of the dataclass Signal of core/models.py; reasons and extra
\* have defaults
SignalFields == {"kind", "symbol", "direction", "conviction", "reasons", "extra"}
SignalRequired == {"kind", "symbol", "direction", "conviction"}

\* Signal(**kwargs): the generated __init__ raises TypeError for a keyword
\* that is no field and for a missing field without default
SignalNew(kwargs) ==
    IF DOMAIN kwargs \subseteq SignalFields /\ SignalRequired \subseteq DOMAIN kwargs
    THEN [raised |-> "", obj |-> Some(kwargs)]
    ELSE [raised |-> "TypeError", obj |-> None]

\* variant: the direction is left out of the key
GroupKeySymbolOnly(sig) == <<sig.symbol, "">>

\* (s.symbol, s.direction)
GroupKey(sig) == <<sig.symbol, sig.direction>>

RECURSIVE GroupKeys(_, _)
\* the keys of grouped after the first n signals, in insertion order
GroupKeys(signals, n) ==
    IF n = 0 THEN <<>>
    ELSE LET ks == GroupKeys(signals, n - 1)
             k == GroupKey(signals[n])
         IN  IF \E i \in DOMAIN ks : ks[i] = k THEN ks ELSE Append(ks, k)

\* grouped.items() after "for s in signals: grouped[(s.symbol, s.direction)].append(s)"
Grouped(signals) ==
    LET ks == GroupKeys(signals, Len(signals))
    IN  [g \in DOMAIN ks |->
           [key |-> ks[g],
            group |-> SelectSeq(signals, LAMBDA sig : GroupKey(sig) = ks[g])]]

RECURSIVE AppendNew(_, _, _)
\* for r in s.reasons: if r not in reasons: reasons.append(r)
AppendNew(reasons, rs, i) ==
    IF i > Len(rs) THEN reasons
    ELSE AppendNew(IF \E j \in DOMAIN reasons : reasons[j] = rs[i]
                   THEN reasons ELSE Append(reasons, rs[i]),
                   rs, i + 1)

RECURSIVE MergeMembers(_, _)
\* reasons, price and extra_combined after the first n members of the group
MergeMembers(group, n) ==
    IF n = 0 THEN [reasons |-> <<>>, price |-> None, extra |-> EmptyDict]
    ELSE LET acc == MergeMembers(group, n - 1)
             sig == group[n]
             keys == { <<sig.bot, k>> : k \in DOMAIN sig.extra }
         IN  [reasons |-> AppendNew(acc.reasons, sig.reasons, 1),
              price |-> IF sig.price # None THEN sig.price ELSE acc.price,
              extra |-> [k \in DOMAIN acc.extra \cup keys |->
                           IF k \in keys THEN sig.extra[k[2]] ELSE acc.extra[k]]]

\* the attributes the loop body reads of the members of a group
GroupAttrs(group) ==
    /\ HasAttr(group[1], "timeframe")
    /\ HasAttr(group[1], "risk_tag")
    /\ \A i \in DOMAIN group :
          /\ HasAttr(group[i], "bot")
          /\ HasAttr(group[i], "reasons")
          /\ HasAttr(group[i], "price")
          /\ HasAttr(group[i], "extra")

\* the two gates and the floor: the group is passed over
Gated(ctx, direction, combined_conviction, min_conviction) ==
    \/ ctx.risk_off /\ direction = "bull" /\ FloatLess(combined_conviction, RiskOffBullBar)
    \/ ctx.trend = "bull" /\ direction = "bear"
          /\ FloatLess(combined_conviction, BullTrendBearBar)
    \/ FloatLess(combined_conviction, min_conviction)

\* one pass of "for (symbol, direction), group in grouped.items()"
AggregateGroup(key, group, ctx, min_conviction) ==
    LET convictions == [i \in DOMAIN group |-> FloatOf(group[i].conviction)]
        combined_conviction == CombineConvictions(convictions)
    IN  IF ~GroupAttrs(group)
        THEN [raised |-> "AttributeError", combined |-> combined_conviction, merged |-> None]
        ELSE IF Gated(ctx, key[2], combined_conviction, min_conviction)
        THEN [raised |-> "", combined |-> combined_conviction, merged |-> None]
        ELSE LET m == MergeMembers(group, Len(group))
                 new == SignalNew([bot |-> { group[i].bot : i \in DOMAIN group },
                                   symbol |-> key[1],
                                   direction |-> key[2],
                                   conviction |-> combined_conviction,
                                   reasons |-> m.reasons,
                                   timeframe |-> group[1].timeframe,
                                   risk_tag |-> group[1].risk_tag,
                                   price |-> m.price,
                                   extra |-> m.extra])
             IN  [raised |-> new.raised, combined |-> combined_conviction,
                  merged |-> new.obj]

RECURSIVE Members(_, _)
\* the signals held by the first n groups, group after group
Members(passes, n) ==
    IF n = 0 THEN <<>> ELSE Members(passes, n - 1) \o passes[n].group

\* the groups of aggregate_signals and, for each, what its pass of the loop
\* does.  The passes share nothing but final, so each is computed on its own.
AggregatePasses(signals, ctx, min_conviction) ==
    LET groups == Grouped(signals)
    IN  [g \in DOMAIN groups |->
           [key |-> groups[g].key,
            group |-> groups[g].group,
            pass |-> AggregateGroup(groups[g].key, groups[g].group, ctx, min_conviction)]]

\* variant: the batch is returned as it came, one entry per signal
AggregateSignalsUngrouped(passes) ==
    [grouped |-> [g \in DOMAIN passes |->
                    [key |-> passes[g].key, group |-> passes[g].group]],
     raised |-> "",
     final |-> Members(passes, Len(passes)),
     combined |-> <<>>]

\* aggregate_signals, given its passes: the loop ends with the first pass that
\* raises.  The result names the groups built, the exception that ended the
\* call ("" when it returned), the list final, and the combined conviction of
\* each group the loop reached.
AggregateSignals(passes) ==
    LET raising == { g \in DOMAIN passes : passes[g].pass.raised # "" }
        last == IF raising = {} THEN Len(passes)
                ELSE CHOOSE g \in raising : \A h \in raising : g <= h
        reached == SubSeq(passes, 1, last)
        appended == SelectSeq(reached,
                              LAMBDA r : r.pass.raised = "" /\ r.pass.merged # None)
    IN  [grouped |-> [g \in DOMAIN passes |->
                        [key |-> passes[g].key, group |-> passes[g].group]],
         raised |-> IF raising = {} THEN "" ELSE passes[last].pass.raised,
         final |-> [m \in DOMAIN appended |-> Value(appended[m].pass.merged)],
         combined |-> [g \in DOMAIN reached |-> reached[g].pass.combined]]

(***************************************************************************)
(* aggregate_signals and _combine_convictions called on their own.         *)
(* Convictions are written in hundredths: the field holds FloatOf of it.   *)
(***************************************************************************)
MaxBatch == 2
MaxGroup == 3

\* Signal objects of core/models.py as the producers build them
AggSignals ==
    { Signal("breakout", "AAPL", "bull", 65, <<"a", "b">>, [volume |-> 1]),
      Signal("momentum", "AAPL", "bull", 75, <<"b", "c">>, [volume |-> 2]),
      Signal("momentum", "AAPL", "bull", 30, <<"r1">>, <<>>),
      Signal("breakout", "AAPL", "bear", 55, <<"r1">>, <<>>),
      Signal("breakout", "MSFT", "bear", 65, <<"r3">>, <<>>),
      Signal("breakout", "", "bull", 150, <<"r1">>, <<>>) }

\* MarketContext objects with every field set
AggContexts ==
    { [as_of |-> 0, trend |-> t, vol_regime |-> "normal", risk_off |-> r] :
        t \in {"bull", "chop"}, r \in BOOLEAN }

BatchInputs == UNION { [1 .. n -> AggSignals] : n \in 0 .. MaxBatch }

ConvictionInputs == {-50, 20, 30, 50, 150}

ConvictionLists == UNION { [1 .. n -> ConvictionInputs] : n \in 1 .. MaxGroup }

\* variant: grouped is kept from call to call
GroupedKept(old) == old

\* grouped = defaultdict(list): every call starts with a dict of its own,
\* whatever the signals old that the groups of the call before held
GroupedFresh(old) == <<>>

\* the arguments when the call ends: no statement of aggregate_signals
\* assigns to signals, to an attribute of a signal or to an attribute of ctx
ArgsAtReturn(signals, ctx) == [signals |-> signals, ctx |-> ctx]

\* what a call of aggregate_signals(signals, ctx) does
AggregateEffect(signals, ctx) ==
    /\ agg_in' = Some([signals |-> signals, ctx |-> ctx])
    /\ agg_pass' = AggregatePasses(GroupedFresh(Members(agg_pass, Len(agg_pass))) \o signals,
                                   ctx, MinConvictionDefault)
    /\ agg_out' = Some(AggregateSignals(agg_pass'))
    /\ agg_left' = Some(ArgsAtReturn(signals, ctx))

\* a call of aggregate_signals(signals, ctx) on its own
AggregateCall(signals, ctx) ==
    /\ AggregateEffect(signals, ctx)
    /\ UNCHANGED <<status_bots, runs, cmb_prev, cmb_last, pairVars, cycVars>>
    /\ UNCHANGED <<dispVars, busVars, runVars>>

\* aggregate_signals(signals, ctx), the first call
CallAggregate(signals, ctx) ==
    /\ agg_in = None
    /\ AggregateCall(signals, ctx)
    /\ UNCHANGED agg_first

\* aggregate_signals(signals, ctx), a later call
CallAggregateAgain(signals, ctx) ==
    /\ agg_in # None
    /\ AggregateCall(signals, ctx)
    /\ agg_first' = IF agg_first = None
                    THEN Some([in |-> Value(agg_in), out |-> Value(agg_out)])
                    ELSE agg_first

InitAggregate == DispatcherOfMain /\ BusIdle /\ RunIdle /\ UnitIdle

NextAggregate == \E signals \in BatchInputs : \E ctx \in AggContexts : CallAggregate(signals, ctx)

SpecAggregate == InitAggregate /\ [][NextAggregate]_vars

\* the batches and contexts of the repeated calls
RepeatBatches ==
    { <<>>,
      <<Signal("breakout", "AAPL", "bull", 65, <<"r1">>, <<>>)>>,
      <<Signal("breakout", "AAPL", "bull", 65, <<"r1">>, <<>>),
        Signal("breakout", "MSFT", "bear", 65, <<"r3">>, <<>>)>> }

NextAggregateRepeated ==
    \E signals \in RepeatBatches : \E ctx \in AggContexts :
        \/ CallAggregate(signals, ctx)
        \/ CallAggregateAgain(signals, ctx)

SpecAggregateRepeated == InitAggregate /\ [][NextAggregateRepeated]_vars

\* a call of _combine_convictions on a list of floats given in hundredths
CombineCall(ps, rel) ==
    [in |-> ps, rel |-> rel,
     out |-> CombineConvictions([i \in DOMAIN ps |-> FloatOf(ps[i])])]

\* _combine_convictions(ps), the first call
CombineFirst(ps) ==
    /\ cmb_last = None
    /\ cmb_last' = Some(CombineCall(ps, "first"))
    /\ cmb_prev' = None
    /\ UNCHANGED <<status_bots, runs, agg_in, agg_pass, agg_out, agg_left, agg_first,
                   pairVars, cycVars>>
    /\ UNCHANGED <<dispVars, busVars, runVars>>

\* a second call, on the list of the first call changed by f
CombineAgain(ps, rel) ==
    /\ cmb_last # None
    /\ Value(cmb_last).rel = "first"
    /\ cmb_prev' = cmb_last
    /\ cmb_last' = Some(CombineCall(ps, rel))
    /\ UNCHANGED <<status_bots, runs, agg_in, agg_pass, agg_out, agg_left, agg_first,
                   pairVars, cycVars>>
    /\ UNCHANGED <<dispVars, busVars, runVars>>

\* the second call gets the same convictions in another order
CombinePermuted(q) ==
    LET ps == Value(cmb_last).in
    IN  /\ DOMAIN q = DOMAIN ps
        /\ CombineAgain([i \in DOMAIN ps |-> ps[q[i]]], "permuted")

\* the second call gets one conviction raised
CombineRaised(i, v) ==
    LET ps == Value(cmb_last).in
    IN  /\ i \in DOMAIN ps
        /\ v > ps[i]
        /\ CombineAgain([ps EXCEPT ![i] = v], "raised")

\* the second call gets one more conviction
CombineExtended(v) ==
    LET ps == Value(cmb_last).in
    IN  /\ Len(ps) < MaxGroup
        /\ CombineAgain(Append(ps, v), "extended")

InitCombine == DispatcherOfMain /\ BusIdle /\ RunIdle /\ UnitIdle

NextCombine ==
    \/ \E ps \in ConvictionLists : CombineFirst(ps)
    \/ \E n \in 1 .. MaxGroup : \E q \in Permutations(1 .. n) :
          cmb_last # None /\ CombinePermuted(q)
    \/ \E i \in 1 .. MaxGroup : \E v \in ConvictionInputs :
          cmb_last # None /\ CombineRaised(i, v)
    \/ \E v \in ConvictionInputs : cmb_last # None /\ CombineExtended(v)

SpecCombine == InitCombine /\ [][NextCombine]_vars

(***************************************************************************)
(* run.py: the scan cycle of main from the producers on (lines 83 to 258), *)
(* together with the cycles that end at line 74.  In main the call at     *)
(* line 74 raises in every cycle (SpecRun); SpecCycle has those cycles and *)
(* also the cycles that go on with a MarketContext ctx, so what holds of   *)
(* SpecCycle holds of main.                                                *)
(***************************************************************************)
\* "while True: try: ctx = ...": a scan cycle begins
CycleBegin(ctx) ==
    /\ rpc = "loop"
    /\ cycle < MaxCycles
    /\ cycle' = cycle + 1
    /\ rpc' = "bots"
    /\ ctx_args' = Some(ctx)
    /\ drains' = 0
    /\ bots_done' = 0
    /\ cyc_base' = npub
    /\ cyc_final' = <<>>
    /\ cyc_log' = <<>>
    /\ UNCHANGED <<reply, errors_logged>>
    /\ UNCHANGED <<status_bots, runs, agg_in, agg_pass, agg_out, agg_left, agg_first,
                   cmb_prev, cmb_last, pairVars>>
    /\ UNCHANGED <<dispVars, busVars>>

\* "ctx = compute_market_context(...)" raises: the cycle goes to its handler
\* with nothing run
CycleContextRaises ==
    /\ rpc = "loop"
    /\ cycle < MaxCycles
    /\ cycle' = cycle + 1
    /\ rpc' = "except"
    /\ ctx_args' = None
    /\ drains' = 0
    /\ bots_done' = 0
    /\ cyc_base' = npub
    /\ cyc_final' = <<>>
    /\ cyc_log' = <<>>
    /\ UNCHANGED <<reply, errors_logged>>
    /\ UNCHANGED <<status_bots, runs, agg_in, agg_pass, agg_out, agg_left, agg_first,
                   cmb_prev, cmb_last, pairVars>>
    /\ UNCHANGED <<dispVars, busVars>>

\* one of the _run_bot_safely calls of lines 83 to 223
CycleRunBot(bot_name, fn) ==
    /\ rpc = "bots"
    /\ RunBotSafely(bot_name, fn)

\* variant: drain hands out the buffer and keeps using it
CycleDrainNoReset ==
    /\ rpc = "bots"
    /\ Len(returned) < MaxDrains
    /\ returned' = Append(returned, [ref |-> signals_ref, snap |-> heap[signals_ref]])
    /\ drains' = drains + 1
    /\ rpc' = "aggregate"
    /\ UNCHANGED <<heap, signals_ref, npub, published, ppc, pref, psig, dpc, dlocal>>
    /\ UNCHANGED <<cycle, reply, ctx_args, bots_done, errors_logged>>
    /\ UNCHANGED <<dispVars, unitVars>>

\* raw_signals = bus.drain()
CycleDrain ==
    /\ rpc = "bots"
    /\ Len(returned) < MaxDrains
    /\ heap' = Append(heap, <<>>)
    /\ signals_ref' = Len(heap) + 1
    /\ returned' = Append(returned, [ref |-> signals_ref, snap |-> heap[signals_ref]])
    /\ drains' = drains + 1
    /\ rpc' = "aggregate"
    /\ UNCHANGED <<npub, published, ppc, pref, psig, dpc, dlocal>>
    /\ UNCHANGED <<cycle, reply, ctx_args, bots_done, errors_logged>>
    /\ UNCHANGED <<dispVars, unitVars>>

\* raw_signals of the cycle: the Signal objects of the list drain returned
RawSignals ==
    LET snap == returned[Len(returned)].snap
    IN  [i \in DOMAIN snap |-> snap[i].sig]

\* final_signals = aggregate_signals(raw_signals, ctx): an exception leaves
\* the try block for its handler, otherwise the loop over final_signals is
\* next (the option picker adds to the extra of a merged signal only)
CycleAggregate ==
    /\ rpc = "aggregate"
    /\ AggregateEffect(RawSignals, Value(ctx_args))
    /\ IF Value(agg_out').raised # ""
       THEN rpc' = "except" /\ cyc_final' = <<>>
       ELSE rpc' = "dispatch" /\ cyc_final' = Value(agg_out').final
    /\ UNCHANGED <<cycle, reply, ctx_args, drains, bots_done, errors_logged>>
    /\ UNCHANGED <<status_bots, runs, agg_first, cmb_prev, cmb_last, pairVars,
                   cyc_base, cyc_log>>
    /\ UNCHANGED <<dispVars, busVars>>

\* "for sig in final_signals: dispatcher.dispatch(sig, ctx)": the next pass
\* of the loop, or its end, after which the cycle goes to sleep
CycleDispatch(now, net) ==
    /\ rpc = "dispatch"
    /\ IF cyc_final = <<>>
       THEN /\ rpc' = "sleep"
            /\ UNCHANGED <<cyc_final, cyc_log, dispVars>>
       ELSE LET sig == Head(cyc_final)
                a == AlertingOutcome(last_sent, min_alert_interval_seconds, tg_config,
                                     sig, now, net)
            IN  /\ now >= clock
                /\ clock' = now
                /\ ncalls' = ncalls + 1
                /\ last_sent' = a.table
                /\ last_call' = <<CallRecord(sig, now, a.send, None, a.r)>>
                /\ transport_log' = IF a.send
                                    THEN Append(transport_log, LogEntry(sig, now))
                                    ELSE transport_log
                /\ ndelivered' = Delivered(ndelivered, a.r)
                /\ cyc_log' = Append(cyc_log, sig)
                /\ cyc_final' = Tail(cyc_final)
                /\ rpc' = "dispatch"
                /\ UNCHANGED <<cls, tg_config, min_alert_interval_seconds, ninst>>
    /\ UNCHANGED <<cycle, reply, ctx_args, drains, bots_done, errors_logged>>
    /\ UNCHANGED <<status_bots, runs, agg_in, agg_pass, agg_out, agg_left, agg_first,
                   cmb_prev, cmb_last, pairVars, cyc_base>>
    /\ UNCHANGED busVars

\* the context of the cycles: a market without trend and not risk-off
CycleContexts == { ctx \in AggContexts : ctx.trend = "chop" /\ ~ctx.risk_off }

\* the producers of the cycles: one that publishes nothing, one that
\* publishes a signal and returns, one that publishes two and raises
CycleFns ==
    { fn \in FnInputs : fn.ending = (IF Len(fn.sigs) = 2 THEN "raise" ELSE "return") }

InitCycle == DispatcherOfMain /\ BusIdle /\ RunIdle /\ UnitIdle

NextCycle ==
    \/ \E ctx \in CycleContexts : CycleBegin(ctx)
    \/ CycleContextRaises
    \/ \E bot_name \in ProducerInputs : \E fn \in CycleFns : CycleRunBot(bot_name, fn)
    \/ CycleDrain
    \/ CycleAggregate
    \/ \E now \in 0 .. MaxTime : \E net \in NetOutcomes : CycleDispatch(now, net)
    \/ LogMainLoopError
    \/ Sleep

SpecCycle == InitCycle /\ [][NextCycle]_vars

\* C14: aggregate_signals never puts signals that differ in symbol or in
\* direction into one group, whatever their categories; it builds one group
\* per (symbol, direction) pair, returns at most one merged signal per pair,
\* and a merged signal carries the symbol and direction of its group.
C14_GroupsBySymbolAndDirection ==
    agg_out # None =>
        LET o == Value(agg_out)
        IN  /\ \A g \in DOMAIN o.grouped : \A i \in DOMAIN o.grouped[g].group :
                  /\ o.grouped[g].group[i].symbol = o.grouped[g].key[1]
                  /\ o.grouped[g].group[i].direction = o.grouped[g].key[2]
            /\ \A g, h \in DOMAIN o.grouped :
                  g # h => o.grouped[g].key # o.grouped[h].key
            /\ \A m, n \in DOMAIN o.final :
                  m # n => <<o.final[m].symbol, o.final[m].direction>>
                             # <<o.final[n].symbol, o.final[n].direction>>
            /\ \A m \in DOMAIN o.final : \E g \in DOMAIN o.grouped :
                  o.grouped[g].key = <<o.final[m].symbol, o.final[m].direction>>

\* a batch of two signals of one category and one symbol, differing in
\* direction, has been grouped into two groups
C14_Witness ==
    /\ agg_out # None
    /\ Len(Value(agg_in).signals) = 2
    /\ Value(agg_in).signals[1].kind = Value(agg_in).signals[2].kind
    /\ Value(agg_in).signals[1].symbol = Value(agg_in).signals[2].symbol
    /\ Value(agg_in).signals[1].direction # Value(agg_in).signals[2].direction
    /\ Len(Value(agg_out).grouped) = 2

\* C15: the combined conviction of p1..pn is 1 minus the product of the
\* (1 - pi); in particular a single conviction p in [0,1] combines to exactly
\* p, and combine([0.5, 0.3, 0.2]) is 0.72.
C15_CombineIsNoisyOr ==
    cmb_last # None =>
        LET c == Value(cmb_last)
        IN  /\ (Len(c.in) = 1 /\ c.in[1] \in 0 .. 100) => c.out = FloatOf(c.in[1])
            /\ c.in = <<50, 30, 20>> => c.out = FloatOf(72)

\* C16: permuting the convictions does not change the combined value, raising
\* one conviction or adding one never lowers it, and the combined value is
\* never below the clamped conviction of any member.
C16_CombineOrderIndependentMonotone ==
    cmb_last # None =>
        LET c == Value(cmb_last)
        IN  /\ \A i \in DOMAIN c.in : ~FloatLess(c.out, Clamp(FloatOf(c.in[i])))
            /\ cmb_prev # None =>
                  /\ c.rel = "permuted" => c.out = Value(cmb_prev).out
                  /\ c.rel \in {"raised", "extended"} =>
                        ~FloatLess(c.out, Value(cmb_prev).out)

\* final holds a merged signal for the pair key
Emitted(o, key) ==
    \E m \in DOMAIN o.final : <<o.final[m].symbol, o.final[m].direction>> = key

\* the combined conviction of a group
GroupCombined(group) ==
    CombineConvictions([i \in DOMAIN group |-> FloatOf(group[i].conviction)])

\* the groups of the observed call that have a symbol
NamedGroups ==
    { g \in DOMAIN Value(agg_out).grouped : Value(agg_out).grouped[g].key[1] # "" }

\* C17: with risk_off true a bull group below the bar 0.7 is suppressed and a
\* bull group at or above it (0.75) is emitted; a bear group is not touched
\* by this gate: when the bull-trend gate does not apply and it reaches the
\* floor, it is emitted.
C17_RiskOffGate ==
    (agg_out # None /\ Value(agg_in).ctx.risk_off) =>
        \A g \in NamedGroups :
            LET o == Value(agg_out)
                key == o.grouped[g].key
                c == GroupCombined(o.grouped[g].group)
            IN  /\ (key[2] = "bull" /\ FloatLess(c, RiskOffBullBar)) => ~Emitted(o, key)
                /\ (key[2] = "bull" /\ ~FloatLess(c, RiskOffBullBar)) => Emitted(o, key)
                /\ (key[2] # "bull" /\ Value(agg_in).ctx.trend # "bull"
                      /\ ~FloatLess(c, MinConvictionDefault)) => Emitted(o, key)

\* C18: with trend bull a bear group below the bar 0.6 (0.55) is suppressed
\* and a bear group at or above it (0.65) is emitted; a bull group is not
\* touched by this gate: when risk_off is false and it reaches the floor, it
\* is emitted.
C18_BullTrendGate ==
    (agg_out # None /\ Value(agg_in).ctx.trend = "bull") =>
        \A g \in NamedGroups :
            LET o == Value(agg_out)
                key == o.grouped[g].key
                c == GroupCombined(o.grouped[g].group)
            IN  /\ (key[2] = "bear" /\ FloatLess(c, BullTrendBearBar)) => ~Emitted(o, key)
                /\ (key[2] = "bear" /\ ~FloatLess(c, BullTrendBearBar)) => Emitted(o, key)
                /\ (key[2] # "bear" /\ ~Value(agg_in).ctx.risk_off
                      /\ ~FloatLess(c, MinConvictionDefault)) => Emitted(o, key)

\* C19: every merged signal returned has a conviction of at least the floor
\* 0.4, and a group is emitted exactly when it fails none of the floor, the
\* risk-off gate and the bull-trend gate.
C19_FloorAndCompleteness ==
    agg_out # None =>
        LET o == Value(agg_out)
            ctx == Value(agg_in).ctx
        IN  /\ \A m \in DOMAIN o.final :
                  ~FloatLess(o.final[m].conviction, MinConvictionDefault)
            /\ \A g \in NamedGroups :
                  LET key == o.grouped[g].key
                      c == GroupCombined(o.grouped[g].group)
                      floor == FloatLess(c, MinConvictionDefault)
                      riskoff == ctx.risk_off /\ key[2] = "bull"
                                    /\ FloatLess(c, RiskOffBullBar)
                      bulltrend == ctx.trend = "bull" /\ key[2] = "bear"
                                      /\ FloatLess(c, BullTrendBearBar)
                  IN  Emitted(o, key) <=> ~(floor \/ riskoff \/ bulltrend)

\* C20: a signal with an empty symbol or direction is in no group, every
\* conviction is clamped into [0,1] before use, and every merged signal
\* returned has a symbol, a direction and a conviction in [0,1].
C20_IngestionBoundary ==
    agg_out # None =>
        LET o == Value(agg_out)
        IN  /\ \A g \in DOMAIN o.grouped : \A i \in DOMAIN o.grouped[g].group :
                  /\ o.grouped[g].group[i].symbol # ""
                  /\ o.grouped[g].group[i].direction # ""
            /\ \A g \in DOMAIN o.combined :
                  ~FloatLess(o.combined[g], Zero) /\ ~FloatLess(One, o.combined[g])
            /\ \A m \in DOMAIN o.final :
                  /\ o.final[m].symbol # ""
                  /\ o.final[m].direction # ""
                  /\ ~FloatLess(o.final[m].conviction, Zero)
                  /\ ~FloatLess(One, o.final[m].conviction)

\* C21: aggregate_signals never raises for the shape of its input: for every
\* batch of Signal objects as the producers build them, the empty batch
\* included, the call returns a list.
C21_AggregateNeverRaises ==
    agg_out # None => Value(agg_out).raised = ""

Survives(g) ==
    LET key == Value(agg_out).grouped[g].key
        ctx == Value(agg_in).ctx
        c == GroupCombined(Value(agg_out).grouped[g].group)
    IN  /\ ~FloatLess(c, MinConvictionDefault)
        /\ ~(ctx.risk_off /\ key[2] = "bull" /\ FloatLess(c, RiskOffBullBar))
        /\ ~(ctx.trend = "bull" /\ key[2] = "bear" /\ FloatLess(c, BullTrendBearBar))

\* the merged signals returned for the group g
MergedOf(g) ==
    { m \in DOMAIN Value(agg_out).final :
        <<Value(agg_out).final[m].symbol, Value(agg_out).final[m].direction>>
            = Value(agg_out).grouped[g].key }

RECURSIVE AllReasons(_, _)
\* the reasons of the first n members, one member after the other
AllReasons(group, n) ==
    IF n = 0 THEN <<>> ELSE AllReasons(group, n - 1) \o group[n].reasons

\* the positions of seq that hold a string for the first time
FirstOccurrences(seq) ==
    { i \in DOMAIN seq : \A j \in 1 .. (i - 1) : seq[j] # seq[i] }

\* seq without the strings that came before
WithoutRepeats(seq) ==
    SelectSeq([i \in DOMAIN seq |-> [at |-> i, r |-> seq[i]]],
              LAMBDA e : e.at \in FirstOccurrences(seq))

\* C23: the merged signal of a surviving group has as reasons the members'
\* reasons in visiting order, each string once, at its first occurrence
\* ([a,b] then [b,c] gives [a,b,c]).
C23_ReasonsMerged ==
    agg_out # None =>
        \A g \in NamedGroups : Survives(g) =>
            \E m \in MergedOf(g) :
                LET group == Value(agg_out).grouped[g].group
                    want == WithoutRepeats(AllReasons(group, Len(group)))
                IN  Value(agg_out).final[m].reasons = [i \in DOMAIN want |-> want[i].r]

\* C24: the merged signal of a surviving group holds every field of every
\* member's metadata under the key (category, field), so two members of
\* different categories with a field of one name both keep their value.
C24_MetadataNamespaced ==
    agg_out # None =>
        \A g \in NamedGroups : Survives(g) =>
            \E m \in MergedOf(g) :
                LET group == Value(agg_out).grouped[g].group
                    extra == Value(agg_out).final[m].extra
                IN  \A i \in DOMAIN group : \A k \in DOMAIN group[i].extra :
                        (\A j \in DOMAIN group :
                            (j > i /\ group[j].kind = group[i].kind)
                                => k \notin DOMAIN group[j].extra)
                        => /\ <<group[i].kind, k>> \in DOMAIN extra
                           /\ extra[<<group[i].kind, k>>] = group[i].extra[k]

\* C25: the merged signal of a surviving group is labelled with the members'
\* categories, each once, sorted and joined with '+' (written here as the set
\* of the categories, which the joined string names one to one).
C25_CategoryLabel ==
    agg_out # None =>
        \A g \in NamedGroups : Survives(g) =>
            \E m \in MergedOf(g) :
                LET group == Value(agg_out).grouped[g].group
                IN  Value(agg_out).final[m].kind = { group[i].kind : i \in DOMAIN group }

\* C26: the merged signal of a surviving group has the price of the member
\* with the most recent timestamp.
C26_PriceOfLatestMember ==
    agg_out # None =>
        \A g \in NamedGroups : Survives(g) =>
            \E m \in MergedOf(g) :
                LET group == Value(agg_out).grouped[g].group
                IN  /\ \A i \in DOMAIN group : {"timestamp", "price"} \subseteq DOMAIN group[i]
                    /\ "price" \in DOMAIN Value(agg_out).final[m]
                    /\ \E i \in DOMAIN group :
                          /\ \A j \in DOMAIN group : group[j].timestamp <= group[i].timestamp
                          /\ Value(agg_out).final[m].price = group[i].price

\* C30: a Dispatcher of core/alerting.py built with an interval that is zero,
\* negative or missing holds the interval 0 (building it does not fail):
\* every dispatch call sends, no key is ever inside a cooldown window, and
\* the table stays empty.
C30_NoCooldownWithoutInterval ==
    cls = "alerting" =>
        /\ min_alert_interval_seconds >= 0
        /\ min_alert_interval_seconds = 0 =>
              /\ last_sent = EmptyDict
              /\ Len(transport_log) = ncalls
              /\ Called => Call.invoked
              /\ \A sig \in DispatchSignals : \A now \in 0 .. MaxTime :
                    ~Cooling(last_sent, sig, now)

\* three calls for one key at one time were all sent
C30_Witness ==
    /\ cls = "alerting"
    /\ min_alert_interval_seconds = 0
    /\ ncalls = 3
    /\ Len(transport_log) = 3
    /\ ThrottleKey(transport_log[1].sig) = ThrottleKey(transport_log[2].sig)
    /\ ThrottleKey(transport_log[2].sig) = ThrottleKey(transport_log[3].sig)
    /\ transport_log[1].t = transport_log[3].t

\* C29: run on one sequence of dispatch calls with the same clock readings
\* and one positive interval, the Dispatcher of core/alerting.py and the
\* Dispatcher of core/dispatcher.py decide every call alike, send or
\* suppress, and after every call hold the same time for every signal's key.
C29_DispatchersAgree ==
    /\ Called => (pair_call # None /\ Value(pair_call).send = Call.send)
    /\ \A sig \in DispatchSignals :
          DictGet(last_sent, KeyForSignal(sig)) = DictGet(pair_sent, DispatcherKey(sig))

\* both suppressed the second call for a key; the first call was sent and
\* not delivered
C29_Witness ==
    /\ ncalls = 2
    /\ ndelivered = 0
    /\ Called
    /\ ~Call.send
    /\ ~Value(pair_call).send
    /\ \E sig \in DispatchSignals :
          /\ ThrottleKey(sig) = ThrottleKey(Call.sig)
          /\ DictGet(last_sent, KeyForSignal(sig)) # None

\* C27: within one scan cycle dispatch is called at most once for a
\* (symbol, direction) pair, however many producers published signals for
\* the pair in the cycle.
C27_OneDispatchPerPair ==
    \A i, j \in DOMAIN cyc_log :
        i # j => GroupKey(cyc_log[i]) # GroupKey(cyc_log[j])

\* two producers published for one pair in the cycle, the batch of both was
\* drained and aggregated, and the cycle is past its dispatch loop
C27_Witness ==
    /\ rpc \in {"except", "sleep"}
    /\ Len(runs) = 2
    /\ runs[1].bot # runs[2].bot
    /\ runs[1].before = Len(returned) - 1
    /\ runs[2].before = Len(returned) - 1
    /\ Len(RawSignals) = 2
    /\ GroupKey(RawSignals[1]) = GroupKey(RawSignals[2])
    /\ Value(agg_in).signals = RawSignals
    /\ \A i, j \in DOMAIN cyc_log : i # j => GroupKey(cyc_log[i]) # GroupKey(cyc_log[j])

\* C28: when a scan cycle begins the buffer of the bus is empty; the batch
\* drained in a cycle holds only signals published in that cycle; and no
\* signal is in two batches, whatever raised in the cycles before.
C28_BufferEmptyAtCycleStart ==
    /\ rpc = "loop" => heap[signals_ref] = <<>>
    /\ drains = 1 =>
          \A i \in DOMAIN returned[Len(returned)].snap :
              returned[Len(returned)].snap[i].id > cyc_base
    /\ \A i \in DOMAIN published :
          Occurrences(Batches(Len(returned)), published[i]) <= 1

\* the second cycle has drained what was published in it, after a first
\* cycle in which a producer raised, signals were drained and the
\* aggregation raised
C28_Witness ==
    /\ cycle = 2
    /\ drains = 1
    /\ Len(returned) = 2
    /\ returned[1].snap # <<>>
    /\ returned[2].snap # <<>>
    /\ errors_logged = 1
    /\ runs[1].failed
    /\ runs[1].before = 0

====
